---- MODULE Spec2Model ----
(***************************************************************************)
(* Model of src/app.py: the roster builder (generate_participant_list),    *)
(* the day assigner (create_day_grouping) and the multi-day planner        *)
(* (generate_all_days).  A participant is a record [id, company]; a group  *)
(* is the Python list of its members in placement order; a grouping is the *)
(* list of the day's groups.  Python indexes from 0, TLA+ sequences from   *)
(* 1: the group at Python position i is element i + 1 here.                *)
(***************************************************************************)
EXTENDS Integers, Sequences, FiniteSets

\* ---------------------------------------------------------------- bounds
MaxParticipants == 4
MaxGroups == 3
MaxDays == 2
\* the length of the trial loop (range(100) in the source), shortened
NumTrials == 2

\* ------------------------------------------------------------- constants
\* ord('A'), the first company label
OrdA == 65
\* the weight of one same-company member
CompanyWeight == 100
\* float('inf'): every score is >= 0, so -1 is free to stand for it
Inf == -1

\* --------------------------------------------------------------- helpers
RECURSIVE SeqSum(_)
SeqSum(s) ==
    IF Len(s) = 0 THEN 0 ELSE Head(s) + SeqSum(Tail(s))

RECURSIVE FnSum(_)
FnSum(f) ==
    IF DOMAIN f = {} THEN 0
    ELSE LET k == CHOOSE x \in DOMAIN f : TRUE
         IN  f[k] + FnSum([x \in DOMAIN f \ {k} |-> f[x]])

\* Python's None against a list: a value is [isNone, val]
None == [isNone |-> TRUE, val |-> <<>>]

Some(v) == [isNone |-> FALSE, val |-> v]

\* Python truthiness of a list-or-None value: "not x"
Falsy(x) == x.isNone \/ Len(x.val) = 0

\* ------------------------------------------------- generate_participant_list
RECURSIVE GenList(_, _, _, _)
GenList(cp, k, participant_id, company_letter) ==
    IF k > Len(cp) THEN <<>>
    ELSE [i \in 1..cp[k] |->
             [id |-> participant_id + i - 1, company |-> company_letter]]
         \o GenList(cp, k + 1, participant_id + cp[k], company_letter + 1)

generate_participant_list(cp) == GenList(cp, 1, 1, OrdA)

\* ------------------------------------------------------ create_day_grouping
\* variant: the remainder is dropped, every group gets total // G
group_capacities_no_remainder(total, G) ==
    [i \in 1..G |-> total \div G]

group_capacities(total, G) ==
    LET group_size == total \div G
        remainder == total % G
    IN  [i \in 1..G |-> IF i - 1 < remainder THEN group_size + 1 ELSE group_size]

\* variant: one participant too few is drawn (k = len - 1)
random_sample_short(s) ==
    LET n == Len(s)
    IN  {[i \in 1..n - 1 |-> s[f[i]]] :
            f \in {g \in [1..n -> 1..n] : \A a, b \in 1..n : a # b => g[a] # g[b]}}

\* random.sample(participants, len(participants)): any permutation
random_sample(s) ==
    LET n == Len(s)
    IN  {[i \in 1..n |-> s[f[i]]] :
            f \in {g \in [1..n -> 1..n] : \A a, b \in 1..n : a # b => g[a] # g[b]}}

\* variant: the pair is not sorted
pair_unsorted(a, b) == <<a, b>>

\* tuple(sorted((a, b)))
pair(a, b) == IF a <= b THEN <<a, b>> ELSE <<b, a>>

\* existing_pairs.get(key, 0)
get(pairs, key) == IF key \in DOMAIN pairs THEN pairs[key] ELSE 0

RECURSIVE AvailFrom(_, _, _)
AvailFrom(grouping, caps, i) ==
    IF i > Len(grouping) THEN <<>>
    ELSE (IF Len(grouping[i]) < caps[i] THEN <<i>> ELSE <<>>)
         \o AvailFrom(grouping, caps, i + 1)

RECURSIVE AvailFromLe(_, _, _)
AvailFromLe(grouping, caps, i) ==
    IF i > Len(grouping) THEN <<>>
    ELSE (IF Len(grouping[i]) <= caps[i] THEN <<i>> ELSE <<>>)
         \o AvailFromLe(grouping, caps, i + 1)

\* variant: a group at its capacity still counts as available
available_groups_indices_le(grouping, caps) == AvailFromLe(grouping, caps, 1)

\* the indices of the groups below their capacity, ascending
available_groups_indices(grouping, caps) == AvailFrom(grouping, caps, 1)

\* variant: no penalty for a shared company
company_penalty_none(p, group) == 0

company_penalty(p, group) ==
    CompanyWeight * Cardinality({j \in 1..Len(group) : group[j].company = p.company})

co_occurrence_score(p, group, pairs) ==
    SeqSum([j \in 1..Len(group) |-> get(pairs, pair(p.id, group[j].id))])

total_score(p, group, pairs) ==
    company_penalty(p, group) + co_occurrence_score(p, group, pairs)

group_scores(p, grouping, avail, pairs) ==
    [k \in 1..Len(avail) |-> <<total_score(p, grouping[avail[k]], pairs), avail[k]>>]

\* min(seq, key=lambda x: x[0]): the first element with the least key
RECURSIVE MinByKey(_)
MinByKey(s) ==
    IF Len(s) = 1 THEN s[1]
    ELSE LET rest == MinByKey(Tail(s))
         IN  IF rest[1] < s[1][1] THEN rest ELSE s[1]

RECURSIVE MinByKeyLast(_)
MinByKeyLast(s) ==
    IF Len(s) = 1 THEN s[1]
    ELSE LET rest == MinByKeyLast(Tail(s))
         IN  IF rest[1] <= s[1][1] THEN rest ELSE s[1]

\* variant: among equal scores the last group wins
best_group_index_last(p, grouping, avail, pairs) ==
    MinByKeyLast(group_scores(p, grouping, avail, pairs))[2]

best_group_index(p, grouping, avail, pairs) ==
    MinByKey(group_scores(p, grouping, avail, pairs))[2]

\* itertools.combinations(group, 2), as index pairs in lexicographic order
RECURSIVE CombFrom(_, _, _)
CombFrom(n, i, j) ==
    IF i >= n THEN <<>>
    ELSE IF j > n THEN CombFrom(n, i + 1, i + 2)
    ELSE <<(<<i, j>>)>> \o CombFrom(n, i, j + 1)

combinations(group) ==
    LET c == CombFrom(Len(group), 1, 2)
    IN  [k \in 1..Len(c) |-> <<group[c[k][1]], group[c[k][2]]>>]

\* Counter(p['company'] for p in group)
company_counts(group) ==
    [c \in {group[j].company : j \in 1..Len(group)} |->
        Cardinality({j \in 1..Len(group) : group[j].company = c})]

group_overall_score(group, pairs) ==
    LET cc == company_counts(group)
        cb == combinations(group)
    IN  FnSum([c \in DOMAIN cc |-> IF cc[c] > 1 THEN cc[c] - 1 ELSE 0]) * CompanyWeight
        + SeqSum([k \in 1..Len(cb) |-> get(pairs, pair(cb[k][1].id, cb[k][2].id))])

current_overall_score(grouping, pairs) ==
    SeqSum([g \in 1..Len(grouping) |-> group_overall_score(grouping[g], pairs)])

\* variant: an equal score replaces the retained plan too
IsLowerOrEqual(score, min) == min = Inf \/ score <= min

\* current_overall_score < min_overall_score, with min possibly float('inf')
IsLower(score, min) == min = Inf \/ score < min

\* -------------------------------------------------------- generate_all_days
\* variant: the entry is set to 1 instead of incremented
IncrReset(pairs, key) ==
    [k \in DOMAIN pairs \cup {key} |-> IF k = key THEN 1 ELSE pairs[k]]

\* co_occurrence[pair] = co_occurrence.get(pair, 0) + 1
Incr(pairs, key) ==
    IF key \in DOMAIN pairs THEN [pairs EXCEPT ![key] = @ + 1]
    ELSE [k \in DOMAIN pairs \cup {key} |-> IF k = key THEN 1 ELSE pairs[k]]

RECURSIVE RecordCombos(_, _)
RecordCombos(pairs, cb) ==
    IF Len(cb) = 0 THEN pairs
    ELSE RecordCombos(Incr(pairs, pair(cb[1][1].id, cb[1][2].id)), Tail(cb))

RECURSIVE RecordGroups(_, _)
RecordGroups(pairs, grouping) ==
    IF Len(grouping) = 0 THEN pairs
    ELSE RecordGroups(RecordCombos(pairs, combinations(Head(grouping))), Tail(grouping))

\* variant: the message names the 0-based index
error_day_zero_based(d) == d

\* the day number of the failure message: day + 1
error_day(d) == d + 1

\* ------------------------------------------------------------------ state
VARIABLES
    company_participants, \* the input of generate_participant_list
    participants,         \* the roster
    num_groups,
    num_days,
    pc,                   \* "day" | "trial" | "place" | "endtrial" | "check" | "done"
    day,                  \* the index of generate_all_days' loop
    all_day_groups,
    co_occurrence,
    best_grouping,
    min_overall_score,
    trial,                \* the number of trials of this day already run
    current_grouping,
    temp_participants,
    idx,                  \* the position of the placement loop in temp_participants
    assignment_successful,
    day_grouping,         \* what create_day_grouping returned
    result,               \* what generate_all_days returned
    st_error,             \* the day number of the st.error message, 0 if none
    trial_log             \* each trial of this day so far: [ok, score, grouping]

vars == <<company_participants, participants, num_groups, num_days, pc, day,
          all_day_groups, co_occurrence, best_grouping, min_overall_score, trial,
          current_grouping, temp_participants, idx, assignment_successful,
          day_grouping, result, st_error, trial_log>>

\* lists of positive per-company counts, the empty list included
CompanyLists ==
    {s \in UNION {[1..n -> 1..MaxParticipants] : n \in 0..MaxParticipants} :
        SeqSum(s) <= MaxParticipants}

NoResult == [returned |-> FALSE, isNone |-> TRUE, all_day_groups |-> <<>>, co_occurrence |-> <<>>]

Init ==
    /\ company_participants \in CompanyLists
    /\ participants = generate_participant_list(company_participants)
    /\ num_groups \in 1..MaxGroups
    /\ num_days \in 1..MaxDays
    /\ pc = "day"
    /\ day = 0
    /\ all_day_groups = <<>>
    /\ co_occurrence = <<>>
    /\ best_grouping = None
    /\ min_overall_score = Inf
    /\ trial = 0
    /\ current_grouping = <<>>
    /\ temp_participants = <<>>
    /\ idx = 1
    /\ assignment_successful = TRUE
    /\ day_grouping = None
    /\ result = NoResult
    /\ st_error = 0
    /\ trial_log = <<>>

inputs == <<company_participants, participants, num_groups, num_days>>

\* generate_all_days, line 105-106: the next day calls create_day_grouping,
\* which returns [] at once for an empty roster (line 40-41)
CallDay ==
    /\ pc = "day"
    /\ day < num_days
    /\ IF Len(participants) = 0
       THEN /\ day_grouping' = Some(<<>>)
            /\ pc' = "check"
       ELSE /\ day_grouping' = None
            /\ pc' = "trial"
    /\ best_grouping' = None
    /\ min_overall_score' = Inf
    /\ trial' = 0
    /\ trial_log' = <<>>
    /\ UNCHANGED <<inputs, day, all_day_groups, co_occurrence, current_grouping,
                   temp_participants, idx, assignment_successful, result, st_error>>

\* line 55-59: one more trial starts with empty groups and a fresh permutation
StartTrial ==
    /\ pc = "trial"
    /\ trial < NumTrials
    /\ current_grouping' = [i \in 1..num_groups |-> <<>>]
    /\ temp_participants' \in random_sample(participants)
    /\ assignment_successful' = TRUE
    /\ idx' = 1
    /\ pc' = "place"
    /\ UNCHANGED <<inputs, day, all_day_groups, co_occurrence, best_grouping,
                   min_overall_score, trial, day_grouping, result, st_error,
                   trial_log>>

\* line 60-80: one pass of the placement loop
Place ==
    /\ pc = "place"
    /\ IF idx > Len(temp_participants)
       THEN /\ pc' = "endtrial"
            /\ UNCHANGED <<current_grouping, idx, assignment_successful>>
       ELSE LET p == temp_participants[idx]
                caps == group_capacities(Len(participants), num_groups)
                avail == available_groups_indices(current_grouping, caps)
            IN  IF Len(avail) = 0
                THEN /\ assignment_successful' = FALSE
                     /\ pc' = "endtrial"
                     /\ UNCHANGED <<current_grouping, idx>>
                ELSE LET b == best_group_index(p, current_grouping, avail, co_occurrence)
                     IN  /\ current_grouping' =
                                [current_grouping EXCEPT ![b] = Append(@, p)]
                         /\ idx' = idx + 1
                         /\ pc' = "place"
                         /\ UNCHANGED assignment_successful
    /\ UNCHANGED <<inputs, day, all_day_groups, co_occurrence, best_grouping,
                   min_overall_score, trial, temp_participants, day_grouping,
                   result, st_error, trial_log>>

\* line 82-96: a successful trial is scored and kept if strictly better
EndTrial ==
    /\ pc = "endtrial"
    /\ LET score == current_overall_score(current_grouping, co_occurrence)
       IN  IF assignment_successful
           THEN /\ trial_log' = Append(trial_log,
                                   [ok |-> TRUE, score |-> score,
                                    grouping |-> current_grouping])
                /\ IF IsLower(score, min_overall_score)
                   THEN /\ min_overall_score' = score
                        /\ best_grouping' = Some(current_grouping)
                   ELSE UNCHANGED <<min_overall_score, best_grouping>>
           ELSE /\ trial_log' = Append(trial_log,
                                   [ok |-> FALSE, score |-> Inf,
                                    grouping |-> current_grouping])
                /\ UNCHANGED <<min_overall_score, best_grouping>>
    /\ trial' = trial + 1
    /\ pc' = "trial"
    /\ UNCHANGED <<inputs, day, all_day_groups, co_occurrence, current_grouping,
                   temp_participants, idx, assignment_successful, day_grouping,
                   result, st_error>>

\* line 98: after the last trial create_day_grouping returns best_grouping
ReturnBest ==
    /\ pc = "trial"
    /\ trial = NumTrials
    /\ day_grouping' = best_grouping
    /\ pc' = "check"
    /\ UNCHANGED <<inputs, day, all_day_groups, co_occurrence, best_grouping,
                   min_overall_score, trial, current_grouping, temp_participants,
                   idx, assignment_successful, result, st_error, trial_log>>

\* line 108-117: a falsy day plan aborts the run; any other is kept and recorded
CheckDay ==
    /\ pc = "check"
    /\ IF Falsy(day_grouping)
       THEN /\ st_error' = error_day(day)
            /\ result' = [returned |-> TRUE, isNone |-> TRUE,
                          all_day_groups |-> <<>>, co_occurrence |-> <<>>]
            /\ pc' = "done"
            /\ UNCHANGED <<day, all_day_groups, co_occurrence>>
       ELSE /\ all_day_groups' = Append(all_day_groups, day_grouping.val)
            /\ co_occurrence' = RecordGroups(co_occurrence, day_grouping.val)
            /\ day' = day + 1
            /\ pc' = "day"
            /\ UNCHANGED <<result, st_error>>
    /\ UNCHANGED <<inputs, best_grouping, min_overall_score, trial, current_grouping,
                   temp_participants, idx, assignment_successful, day_grouping,
                   trial_log>>

\* line 119: the loop is over, the plan and the tracker are returned
Finish ==
    /\ pc = "day"
    /\ day = num_days
    /\ result' = [returned |-> TRUE, isNone |-> FALSE,
                  all_day_groups |-> all_day_groups, co_occurrence |-> co_occurrence]
    /\ pc' = "done"
    /\ UNCHANGED <<inputs, day, all_day_groups, co_occurrence, best_grouping,
                   min_overall_score, trial, current_grouping, temp_participants,
                   idx, assignment_successful, day_grouping, st_error, trial_log>>

Next ==
    \/ CallDay
    \/ StartTrial
    \/ Place
    \/ EndTrial
    \/ ReturnBest
    \/ CheckDay
    \/ Finish

Spec == Init /\ [][Next]_vars

\* ============================================================ properties
Roster == 1..Len(participants)

NonEmptyRoster == Len(participants) > 0

\* the places <<g, j>> of a grouping where the participant with this id sits
PlacesOf(grouping, id) ==
    {gj \in UNION {{<<g, j>> : j \in 1..Len(grouping[g])} : g \in 1..Len(grouping)} :
        grouping[gj[1]][gj[2]].id = id}

MembersOf(grouping) ==
    UNION {{grouping[g][j] : j \in 1..Len(grouping[g])} : g \in 1..Len(grouping)}

IsPartition(grouping) ==
    /\ \A i \in Roster : Cardinality(PlacesOf(grouping, participants[i].id)) = 1
    /\ MembersOf(grouping) = {participants[i] : i \in Roster}

\* a plan create_day_grouping has just returned for a non-empty roster
ReturnedPlan == pc = "check" /\ ~day_grouping.isNone /\ NonEmptyRoster

\* C1: for a non-empty roster every plan create_day_grouping returns, and every
\* day kept by generate_all_days, is a partition of the roster: each participant
\* sits in exactly one place and the members are exactly the roster.
C1_Partition ==
    NonEmptyRoster =>
        /\ \A d \in 1..Len(all_day_groups) : IsPartition(all_day_groups[d])
        /\ ReturnedPlan => IsPartition(day_grouping.val)

C1_Witness ==
    /\ pc = "done"
    /\ ~result.isNone
    /\ Len(result.all_day_groups) = 2
    /\ Len(participants) = 4
    /\ num_groups = 3

\* capacity(i) of the claim, for the 1-based position k = i + 1
Capacity(k) ==
    IF k - 1 < Len(participants) % num_groups
    THEN Len(participants) \div num_groups + 1
    ELSE Len(participants) \div num_groups

SizesFollowCapacity(grouping) ==
    /\ Len(grouping) = num_groups
    /\ \A k \in 1..num_groups : Len(grouping[k]) = Capacity(k)
    /\ SeqSum([k \in 1..num_groups |-> Len(grouping[k])]) = Len(participants)
    /\ \A k \in 1..num_groups - 1 : Len(grouping[k]) >= Len(grouping[k + 1])
    /\ \A k, l \in 1..num_groups : Len(grouping[k]) - Len(grouping[l]) <= 1

\* C2: in every day of a plan the group at position i has exactly capacity(i)
\* members, so the sizes sum to the number of participants, do not increase
\* with the position and differ by at most 1.
C2_GroupSizes ==
    NonEmptyRoster =>
        /\ \A d \in 1..Len(all_day_groups) : SizesFollowCapacity(all_day_groups[d])
        /\ ReturnedPlan => SizesFollowCapacity(day_grouping.val)

C2_Witness ==
    /\ pc = "done"
    /\ ~result.isNone
    /\ Len(participants) = 4
    /\ num_groups = 3
    /\ Len(result.all_day_groups[1][1]) = 2
    /\ Len(result.all_day_groups[1][3]) = 1

Choose2(n) == (n * (n - 1)) \div 2

\* C4: after d finalized days the values of the tracker sum to the sum, over
\* those days and their groups, of C(group size, 2).
C4_TrackerTotal ==
    FnSum(co_occurrence) =
        SeqSum([d \in 1..Len(all_day_groups) |->
            SeqSum([g \in 1..Len(all_day_groups[d]) |->
                Choose2(Len(all_day_groups[d][g]))])])

C4_Witness ==
    /\ Len(all_day_groups) = 2
    /\ FnSum(co_occurrence) = 6
    /\ \E k \in DOMAIN co_occurrence : co_occurrence[k] = 2

CompanyA == OrdA

CompanyB == OrdA + 1

ScenarioA == company_participants = <<2, 2>> /\ num_groups = 2 /\ num_days = 1

OnePerCompany(grouping) ==
    \A g \in 1..Len(grouping) :
        /\ Cardinality({j \in 1..Len(grouping[g]) : grouping[g][j].company = CompanyA}) = 1
        /\ Cardinality({j \in 1..Len(grouping[g]) : grouping[g][j].company = CompanyB}) = 1

\* C3: in Scenario A (companies [2, 2], 2 groups, 1 day; ids 1, 2 of company A
\* and 3, 4 of company B) every trial, hence the winning plan, has overall
\* score 0, and each of its two groups holds one member of A and one of B.
C3_ScenarioA ==
    ScenarioA =>
        /\ participants = <<[id |-> 1, company |-> CompanyA], [id |-> 2, company |-> CompanyA],
                            [id |-> 3, company |-> CompanyB], [id |-> 4, company |-> CompanyB]>>
        /\ \A t \in 1..Len(trial_log) : trial_log[t].ok /\ trial_log[t].score = 0
        /\ pc = "check" =>
               /\ ~day_grouping.isNone
               /\ min_overall_score = 0
               /\ Len(day_grouping.val) = 2
               /\ OnePerCompany(day_grouping.val)
        /\ \A d \in 1..Len(all_day_groups) : OnePerCompany(all_day_groups[d])

C3_Witness ==
    /\ ScenarioA
    /\ pc = "done"
    /\ ~result.isNone
    /\ Len(result.all_day_groups) = 1

KeysCanonical ==
    \A k \in DOMAIN co_occurrence :
        /\ k[1] < k[2]
        /\ k[1] \in Roster
        /\ k[2] \in Roster
        /\ co_occurrence[k] >= 1

NeverDecreases ==
    \A k \in DOMAIN co_occurrence :
        /\ k \in DOMAIN co_occurrence'
        /\ co_occurrence'[k] >= co_occurrence[k]

\* C5: the tracker holds one count per pair, under the key with the smaller id
\* first, so the count of a pair does not depend on the order of its two ids;
\* and no count ever decreases from one finalized day to the next.
C5_SymmetricMonotone == [](KeysCanonical) /\ [][NeverDecreases]_vars

C5_Witness ==
    /\ Len(all_day_groups) = 2
    /\ \E g \in 1..num_groups :
           /\ Len(all_day_groups[1][g]) >= 2
           /\ all_day_groups[1][g][1].id > all_day_groups[1][g][2].id
    /\ \E k \in DOMAIN co_occurrence : co_occurrence[k] = 2

\* the day assigner has reported failure: None or an empty list came back
DayFailed == pc = "check" /\ (day_grouping.isNone \/ day_grouping.val = <<>>)

AbortStep ==
    DayFailed =>
        /\ pc' = "done"
        /\ result'.returned
        /\ result'.isNone
        /\ st_error' = day + 1
        /\ day' = day
        /\ co_occurrence' = co_occurrence
        /\ all_day_groups' = all_day_groups

Aborted ==
    st_error # 0 =>
        /\ pc = "done"
        /\ result.returned /\ result.isNone
        /\ result.all_day_groups = <<>> /\ result.co_occurrence = <<>>
        /\ st_error = day + 1
        /\ Len(all_day_groups) = day

NoStepAfterReturn == pc = "done" => UNCHANGED vars

\* C6: when the day assigner fails for day k, generate_all_days stops at once:
\* the tracker and the kept days are left as they were, no later day is started,
\* both results are None and the message names day k + 1.
C6_AbortOnFailure == [](Aborted) /\ [][AbortStep /\ NoStepAfterReturn]_vars

C6_Witness ==
    /\ st_error = 1
    /\ pc = "done"
    /\ result.isNone

\* C7: a day fails only if every one of its trials ran and ended in capacity
\* exhaustion; nothing else, an empty roster included, makes a day fail.
C7_FailsOnlyWhenAllTrialsExhaust ==
    st_error # 0 =>
        /\ Len(trial_log) = NumTrials
        /\ \A t \in 1..Len(trial_log) : ~trial_log[t].ok

\* C8: for a non-empty roster no trial runs out of capacity: at each placement
\* some group is below its capacity, every trial succeeds, every day gets a
\* plan and generate_all_days returns num_days plans; this covers more groups
\* than participants, where the trailing groups stay empty.
C8_NoExhaustion ==
    NonEmptyRoster =>
        /\ assignment_successful
        /\ (pc = "place" /\ idx <= Len(temp_participants)) =>
               \E k \in 1..num_groups : Len(current_grouping[k]) < Capacity(k)
        /\ \A t \in 1..Len(trial_log) : trial_log[t].ok
        /\ pc = "check" => ~day_grouping.isNone /\ Len(day_grouping.val) = num_groups
        /\ st_error = 0
        /\ pc = "done" =>
               /\ result.returned /\ ~result.isNone
               /\ Len(result.all_day_groups) = num_days

C8_Witness ==
    /\ pc = "done"
    /\ NonEmptyRoster
    /\ num_groups > Len(participants)
    /\ ~result.isNone
    /\ result.all_day_groups[num_days][num_groups] = <<>>

\* the tracker count of the unordered pair {a, b}
TrackerCount(a, b) ==
    LET k == IF a < b THEN <<a, b>> ELSE <<b, a>>
    IN  IF k \in DOMAIN co_occurrence THEN co_occurrence[k] ELSE 0

PlacementScore(p, k) ==
    100 * Cardinality({j \in 1..Len(current_grouping[k]) :
                          current_grouping[k][j].company = p.company})
    + FnSum([j \in 1..Len(current_grouping[k]) |->
                TrackerCount(p.id, current_grouping[k][j].id)])

Eligible == {k \in 1..num_groups : Len(current_grouping[k]) < Capacity(k)}

PlacedAtMinimum ==
    (pc = "place" /\ idx <= Len(temp_participants) /\ idx' = idx + 1) =>
        LET p == temp_participants[idx]
        IN  \E b \in Eligible :
                /\ current_grouping' = [current_grouping EXCEPT ![b] = Append(@, p)]
                /\ \A k \in Eligible :
                       /\ PlacementScore(p, b) <= PlacementScore(p, k)
                       /\ PlacementScore(p, k) = PlacementScore(p, b) => b <= k

\* C9: each participant, in permutation order, goes to the eligible group with
\* the least placement score (100 per member of the same company plus the
\* tracker counts with the members); among equals, to the lowest position.
C9_GreedyPlacement == [][PlacedAtMinimum]_vars

C9_Witness ==
    /\ pc = "place"
    /\ day = 1
    /\ idx = 3
    /\ Len(participants) = 4
    /\ num_groups = 3
    /\ Len(current_grouping[1]) = 1
    /\ Len(current_grouping[2]) = 1
    /\ current_grouping[1][1].company # current_grouping[2][1].company
    /\ TrackerCount(current_grouping[1][1].id, current_grouping[2][1].id) = 1

\* the overall score of a plan: 100 per excess member of a company in a group,
\* plus the tracker count of every unordered pair of members of a group
PlanScore(grouping) ==
    FnSum([g \in 1..Len(grouping) |->
        LET ids == {grouping[g][j].id : j \in 1..Len(grouping[g])}
            companies == {grouping[g][j].company : j \in 1..Len(grouping[g])}
            prs == {k \in ids \X ids : k[1] < k[2]}
        IN  100 * FnSum([c \in companies |->
                    Cardinality({j \in 1..Len(grouping[g]) : grouping[g][j].company = c}) - 1])
            + FnSum([k \in prs |-> TrackerCount(k[1], k[2])])])

OkTrials == {t \in 1..Len(trial_log) : trial_log[t].ok}

\* C10: the plan returned for a day is that of the earliest successful trial
\* whose overall score is least among the day's successful trials, so its score
\* is at most the score of every trial of the day.
C10_FirstMinimumWins ==
    (pc = "check" /\ OkTrials # {}) =>
        LET t0 == CHOOSE t \in OkTrials :
                      \A u \in OkTrials :
                          /\ trial_log[t].score <= trial_log[u].score
                          /\ trial_log[u].score = trial_log[t].score => t <= u
        IN  /\ \A t \in OkTrials : trial_log[t].score = PlanScore(trial_log[t].grouping)
            /\ day_grouping = Some(trial_log[t0].grouping)
            /\ min_overall_score = trial_log[t0].score
            /\ \A t \in OkTrials : PlanScore(day_grouping.val) <= trial_log[t].score

C10_Witness ==
    /\ pc = "check"
    /\ Len(trial_log) = 2
    /\ trial_log[1].score = trial_log[2].score
    /\ trial_log[1].grouping # trial_log[2].grouping
    /\ trial_log[1].score > 0
    /\ day_grouping.val = trial_log[1].grouping

C10_WitnessReplaced ==
    /\ pc = "check"
    /\ Len(trial_log) = 2
    /\ trial_log[2].score < trial_log[1].score
    /\ day_grouping.val = trial_log[2].grouping

====
